---- MODULE Spec2Model ----
(***************************************************************************)
(* State-machine model of the SSH tunnel subsystem of zync:                *)
(*   src/src-tauri/src/tunnel.rs  (TunnelManager, accept loop, per-        *)
(*                                 connection tasks)                       *)
(*   src/src-tauri/src/ssh.rs     (Client handler for forwarded-tcpip)     *)
(*                                                                         *)
(* Tasks run on tokio's multi-threaded runtime: an API call, an accept     *)
(* loop, a per-connection task and the session handler interleave at the   *)
(* granularity of the steps below.  A call's steps are cut at its await    *)
(* points and at the points where it acts on another task (send, abort).   *)
(***************************************************************************)
EXTENDS Integers, Sequences, FiniteSets, TLC

\* ------------------------------------------------------------------ bounds

\* accept-loop tasks that may be spawned in one run
MaxLoops == 2
\* per-connection tasks that may be spawned in one run
MaxConns == 2
\* concurrent API callers (used by the concurrent specifications)
NumCallers == 2
\* cap of the history counter of request-TCP-forward per port
MaxRequests == 2

Loops == 1..MaxLoops
Conns == 1..MaxConns
Callers == 1..NumCallers

\* ------------------------------------------------------------------ inputs

\* two interface addresses that can both hold a listener on the same port
BindAddrs == {"127.0.0.1", "10.0.0.5"}
LocalPorts == {8080}
RemoteHosts == {"db", "db2"}
RemotePorts == {5432}

\* remote forwarding: server-side bind addresses and ports, local targets
RBindAddrs == {"0.0.0.0", "127.0.0.1"}
RPorts == {9000}
LHosts == {"127.0.0.1"}
LPorts == {3000, 3001}

\* u16 as u32 -> u16 conversions wrap modulo 2^16 (ssh.rs:54)
U16 == 2^16

\* the 32-bit bound ports the server may deliver with a forwarded-tcpip open
InboundPorts == {9000, 9001, 9000 + U16}

\* Option<T>: None is <<>>, Some(x) is <<x>>
None == <<>>
Some(x) == <<x>>

\* ------------------------------------------------------- strings (tunnel ids)

\* A String is a sequence of one-character strings.
Digit(d) == <<"0", "1", "2", "3", "4", "5", "6", "7", "8", "9">>[d + 1]

\* format!("{}", n) of an unsigned integer
RECURSIVE Dec(_)
Dec(n) == IF n < 10 THEN <<Digit(n)>> ELSE Dec(n \div 10) \o <<Digit(n % 10)>>

StrLocal == <<"l", "o", "c", "a", "l", ":">>
StrRemote == <<"r", "e", "m", "o", "t", "e", ":">>

\* format!("local:{}:{}", local_port, remote_port)
LocalId(local_port, remote_port) ==
    StrLocal \o Dec(local_port) \o <<":">> \o Dec(remote_port)

\* format!("remote:{}:{}", remote_port, local_port)
RemoteId(remote_port, local_port) ==
    StrRemote \o Dec(remote_port) \o <<":">> \o Dec(local_port)

\* str::starts_with
StartsWith(s, p) == Len(s) >= Len(p) /\ SubSeq(s, 1, Len(p)) = p

\* str::split(':').collect(): the fields between the separators
RECURSIVE Split(_, _)
Split(s, sep) ==
    IF \A i \in 1..Len(s) : s[i] # sep
    THEN <<s>>
    ELSE LET i == CHOOSE j \in 1..Len(s) :
                      s[j] = sep /\ \A k \in 1..(j - 1) : s[k] # sep
         IN <<SubSeq(s, 1, i - 1)>> \o Split(SubSeq(s, i + 1, Len(s)), sep)

DigitVal(ch) == CHOOSE d \in 0..9 : Digit(d) = ch
IsDigit(ch) == \E d \in 0..9 : Digit(d) = ch

RECURSIVE DecVal(_)
DecVal(s) == IF s = <<>> THEN 0
             ELSE 10 * DecVal(SubSeq(s, 1, Len(s) - 1)) + DigitVal(s[Len(s)])

\* str::parse::<u16>(): Some(n), or None on an empty string, a non-digit or
\* a value above 65535 (a leading '+' is accepted)
ParseU16(s) ==
    LET body == IF s # <<>> /\ s[1] = "+" THEN Tail(s) ELSE s
    IN IF body = <<>> \/ \E i \in 1..Len(body) : ~IsDigit(body[i])
       THEN None
       ELSE IF DecVal(body) >= U16 THEN None ELSE Some(DecVal(body))

\* ------------------------------------------------------------------- state

VARIABLES
    local_listeners,  \* TunnelManager.local_listeners: tunnel id -> accept-loop
                      \*   task whose (AbortHandle, Sender) the entry holds
    remote_forwards,  \* TunnelManager.remote_forwards: remote port ->
                      \*   <<local_host, local_port, bind_address>>
    task,             \* the accept-loop tasks spawned by start_local_forwarding
    conn,             \* the per-connection tasks spawned by the accept loops
    session_lock,     \* holder of the Arc<Mutex<Handle<Client>>>
    server_forwards,  \* <<bind, port>> pairs the server forwards for the session
    call,             \* each caller's API call in progress
    ret,              \* the Result a caller's call has just returned
    handled,          \* the forwarded-tcpip open the handler has just served
    requests,         \* history: tcpip_forward requests issued per remote port
                      \*   since the port was last stopped
    sent,             \* the global request the last step of a call or of a
                      \*   task has sent to the server, if it sent one
    ssh,              \* SshManager::connect in progress: the chain of hops,
                      \*   the frame that runs, the sessions built so far
    event_loop,       \* the session task of russh: idle, or inside the
                      \*   handler callback it awaits
    issued,           \* history: <<session, port>> of the tcpip_forward
                      \*   requests issued since the port was last stopped
    probe,            \* find_next_available_port in progress
    parser,           \* parse_ssh_command: the command and its ParseResult
    sshconfig         \* parse_config: the file and the records returned

localVars == <<local_listeners, task, conn>>
remoteVars == <<remote_forwards, server_forwards, requests>>
pureVars == <<probe, parser, sshconfig>>
vars == <<local_listeners, remote_forwards, task, conn, session_lock,
          server_forwards, call, ret, handled, requests, sent, ssh,
          event_loop, issued, pureVars>>
tunnelVars == <<local_listeners, remote_forwards, task, conn, session_lock,
                server_forwards, call, ret, handled, requests, sent,
                event_loop, issued, pureVars>>
managerVars == <<local_listeners, remote_forwards, task, conn, session_lock,
                 server_forwards, call, ret, handled, requests, sent, ssh,
                 event_loop, issued>>
\* what the calls and tasks of the tunnel manager leave alone
restVars == <<ssh, event_loop, issued, pureVars>>

EmptyMap == [x \in {} |-> 0]

\* HashMap::insert and HashMap::remove
\* an insert that is lost
MapInsert_Skip(m, k, v) == m
MapInsert(m, k, v) == [x \in DOMAIN m \cup {k} |-> IF x = k THEN v ELSE m[x]]
\* a remove that leaves the key in place
MapRemove_Keep(m, k) == m
MapRemove(m, k) == [x \in DOMAIN m \ {k} |-> m[x]]
Range(m) == {m[x] : x \in DOMAIN m}

NoTask == [st |-> "unspawned", pc |-> "select", id |-> <<>>, bind |-> "",
           lport |-> 0, rhost |-> "", rport |-> 0, rx |-> "none",
           aborted |-> FALSE, stopped |-> FALSE]
NoConn == [st |-> "none", loop |-> 0, msg |-> FALSE, opened |-> FALSE]
IdleCall == [op |-> "idle", pc |-> "idle", bind |-> "", host |-> "",
             lport |-> 0, rport |-> 0, id |-> <<>>, session |-> FALSE,
             override |-> None, held |-> 0, had |-> FALSE, saved |-> "",
             pre |-> EmptyMap, busy |-> {}, handle |-> ""]
\* named, proc and next are the parts of a port-in-use message
NoRet == [op |-> "none", ok |-> TRUE, id |-> <<>>, msg |-> "",
          named |-> 0, proc |-> None, next |-> None, handle |-> ""]
FreeLock == [kind |-> "free", who |-> 0]
NoRequest == [kind |-> "none", bind |-> "", port |-> 0]
NoHandled == [port |-> 0, present |-> FALSE, entry |-> None, dialed |-> None,
              ok |-> TRUE, on |-> ""]

\* the longest chain of hops connect is called with: the target and the jump
\* hosts before it
MaxHops == 3
\* the most flags of a command given to parse_ssh_command
MaxFlags == 3
\* the most directive lines of a file given to parse_config
MaxLines == 5
Hops == 1..MaxHops

\* a session of the chain. st: "none", "open" (handshake done), "auth"
\* (authenticated) or "closed"; handle: where its client::Handle is: the
\* local `session` of the frame that built it, the local `jump_session` of the
\* frame above, the "handler" of the session above, the "caller" of connect,
\* or "dropped"; kept: the hop in kept_alive_session of its handler, 0 for None
NoSession == [st |-> "none", handle |-> "none", kept |-> 0]
NoResult == [ok |-> FALSE, handle |-> 0, err |-> <<>>]

\* hop n is the target, hop j is reached through its jump host j - 1, hop 1
\* has none; level is the hop whose connect frame runs; log lists the
\* protocol steps made, in order, with their outcome
NoConnect == [n |-> 0, level |-> 0, pc |-> "idle",
              sess |-> [j \in Hops |-> NoSession],
              log |-> <<>>, err |-> <<>>, result |-> NoResult]

\* the sessions that share the manager: every Client handler holds the same
\* Arc<TunnelManager> (ssh.rs:124-127, 137-140)
Sessions == {"A", "B"}

\* the session task waits for a packet or for a message of a Handle
IdleLoop == [pc |-> "idle", on |-> "", port |-> 0]

\* no call of find_next_available_port, of parse_ssh_command, of parse_config
NoProbe == [pc |-> "none", start_port |-> 0, max_attempts |-> 0, held |-> {},
            offset |-> 0, listener |-> None, result |-> None]
NoParse == [pc |-> "none", command |-> <<>>,
            result |-> [success |-> FALSE, tunnels |-> <<>>, errors |-> <<>>]]
NoConfig == [pc |-> "none", lines |-> <<>>, connections |-> <<>>]

\* TunnelManager::new(): both registries empty; nothing spawned or requested
InitManager ==
    /\ local_listeners = EmptyMap
    /\ remote_forwards = EmptyMap
    /\ task = [l \in Loops |-> NoTask]
    /\ conn = [k \in Conns |-> NoConn]
    /\ session_lock = FreeLock
    /\ server_forwards = {}
    /\ call = [c \in Callers |-> IdleCall]
    /\ ret = [c \in Callers |-> NoRet]
    /\ handled = NoHandled
    /\ requests = [p \in RPorts |-> 0]
    /\ sent = NoRequest
    /\ ssh = NoConnect
    /\ event_loop = IdleLoop
    /\ issued = {}

Init == InitManager /\ probe = NoProbe /\ parser = NoParse /\ sshconfig = NoConfig

Idle(c) == call[c].op = "idle"
AllIdle == \A c \in Callers : Idle(c)

\* ret and handled are outputs: they show what the step just taken returned
\* or served, and are cleared by every other step
NoReturn == ret' = [c \in Callers |-> NoRet]
NoOpen == handled' = NoHandled
NoSent == sent' = NoRequest

\* return Ok(..) / Err(..) to the caller; id is the tunnel id returned by a
\* start (the id passed to a stop), msg the error or the line logged
Return(c, op, ok, id, msg) ==
    /\ call' = [call EXCEPT ![c] = IdleCall]
    /\ ret' = [d \in Callers |->
                IF d = c
                THEN [NoRet EXCEPT !.op = op, !.ok = ok, !.id = id, !.msg = msg]
                ELSE NoRet]

\* the same for a call that was given the Handle of the session `handle`
ReturnOn(c, handle, op, ok, id, msg) ==
    /\ call' = [call EXCEPT ![c] = IdleCall]
    /\ ret' = [d \in Callers |->
                IF d = c
                THEN [NoRet EXCEPT !.op = op, !.ok = ok, !.id = id, !.msg = msg,
                                   !.handle = handle]
                ELSE NoRet]

\* lines 51-66: Err("Port <named> is already in use[ <proc>]. Port <next> is
\* available." or "... Please choose a different port.")
ReturnPortInUse(c, named, proc, next) ==
    /\ call' = [call EXCEPT ![c] = IdleCall]
    /\ ret' = [d \in Callers |->
                IF d = c
                THEN [NoRet EXCEPT !.op = "start_local", !.ok = FALSE,
                                   !.msg = "port_in_use", !.named = named,
                                   !.proc = proc, !.next = next]
                ELSE NoRet]

\* the session task is not inside a handler callback: it takes the next
\* message of a Handle and the next packet of the server
LoopFree == event_loop.pc = "idle"

\* the session task of session s takes messages and packets: it is not the
\* one inside the handler
LoopFreeOn(s) == LoopFree \/ event_loop.on # s

\* the local_listeners mutex is held by stop_tunnel from remove to abort
LocalLockHeld == \E c \in Callers : call[c].op = "stop_local"
\* the remote_forwards mutex is held by stop_tunnel until it returns
RemoteLockHeld == \E c \in Callers : call[c].op = "stop_remote"

\* --------------------------------------------- tokio tasks and the broadcast

\* a spawned task whose future has not completed or been dropped; the accept
\* loop's future owns the TcpListener and one Sender of its channel
TaskAlive(l) == task[l].st \in {"idle", "running"}

\* the registry entry's Sender (tx_for_store) is alive while the entry is in
\* the map or in the hands of the call that created or removed it
StoreHeld(l) ==
    l \in Range(local_listeners) \/ \E c \in Callers : call[c].held = l

\* broadcast::Receiver::recv() returns Err(Closed) once every Sender is gone
ChannelClosed(l) == ~TaskAlive(l) /\ ~StoreHeld(l)

\* TcpListener::bind fails with AddrInUse when a listener of this process
\* already holds the port on the same or on the wildcard address
BindConflict(bind, port) ==
    \E l \in Loops :
        /\ TaskAlive(l)
        /\ task[l].lport = port
        /\ (task[l].bind = bind \/ "0.0.0.0" \in {bind, task[l].bind})

\* tx.send(()): every Receiver subscribed at this moment gets the message
Send(l) ==
    /\ task' = [task EXCEPT ![l].rx =
                    IF TaskAlive(l) /\ @ # "none" THEN "msg" ELSE @]
    /\ conn' = [k \in Conns |->
                    IF conn[k].loop = l /\ conn[k].st \in {"lock", "open", "copy"}
                    THEN [conn[k] EXCEPT !.msg = TRUE]
                    ELSE conn[k]]

\* an abort that does nothing
Abort_Nothing(t) == t

\* AbortHandle::abort(): marks a live task cancelled and returns at once; the
\* task is dropped when it is next scheduled (idle) or when its current poll
\* returns Pending (running).  No effect on a completed task.
Abort(t) == [t EXCEPT !.aborted = (t.st \in {"idle", "running"})]

\* a completed or dropped task: its listener and its Sender are gone
FinishedTask(t) ==
    [NoTask EXCEPT !.st = "done", !.id = t.id, !.stopped = t.stopped]

\* a per-connection task that has returned: both streams are dropped; opened
\* tells whether it had got its channel
FinishedConn(cn) == [NoConn EXCEPT !.st = "done", !.opened = cn.opened]

\* ------------------------------------------------- start_local_forwarding

\* a check that never finds the id
AlreadyActive_Never(listeners, id) == FALSE

\* listeners.contains_key(&tunnel_id)
AlreadyActive(listeners, id) == id \in DOMAIN listeners

\* lines 34-43: compute the id and make the idempotency check under the lock
StartLocalCheck(c, bind, lport, rhost, rport) ==
    LET id == LocalId(lport, rport) IN
    /\ Idle(c)
    /\ ~LocalLockHeld
    /\ IF AlreadyActive(local_listeners, id)
       THEN Return(c, "start_local", TRUE, id, "already active")
       ELSE /\ call' = [call EXCEPT ![c] =
                    [IdleCall EXCEPT !.op = "start_local", !.pc = "bind",
                                     !.bind = bind, !.lport = lport,
                                     !.host = rhost, !.rport = rport, !.id = id]]
            /\ NoReturn
    /\ UNCHANGED <<localVars, remoteVars, session_lock>>
    /\ NoOpen
    /\ UNCHANGED restVars
    /\ NoSent

\* TcpListener::bind(addr:port) succeeds unless a socket in held listens on
\* the port on the same or on the wildcard address
CanBind(held, addr, port) ==
    \A h \in held : h[2] = port => (h[1] # addr /\ "0.0.0.0" \notin {h[1], addr})

\* the <<address, port>> pairs the accept loops of this process listen on
Listening == {<<task[l].bind, task[l].lport>> : l \in {m \in Loops : TaskAlive(m)}}

\* a wrapping u16 addition
SaturatingAdd_Wrapping(a, b) == (a + b) % U16

\* u16::saturating_add
SaturatingAdd(a, b) == IF a + b > U16 - 1 THEN U16 - 1 ELSE a + b

\* find_next_available_port, from the iteration with the given offset on
RECURSIVE NextAvailableFrom(_, _, _, _)
NextAvailableFrom(held, start_port, offset, max_attempts) ==
    IF offset > max_attempts THEN None
    ELSE LET candidate_port == SaturatingAdd(start_port, offset)
         IN IF candidate_port = 0 \/ candidate_port = start_port
            THEN NextAvailableFrom(held, start_port, offset + 1, max_attempts)
            ELSE IF CanBind(held, "127.0.0.1", candidate_port)
            THEN Some(candidate_port)
            ELSE NextAvailableFrom(held, start_port, offset + 1, max_attempts)

\* lines 302-319: the first candidate that can be bound on 127.0.0.1
find_next_available_port(held, start_port, max_attempts) ==
    NextAvailableFrom(held, start_port, 1, max_attempts)

\* line 49: the number of ports probed after local_port
MaxAttempts == 10

\* lines 218-299: what lsof and ps tell about the port, if anything
ProcInfos == {None, Some("by PID 1234")}

\* lines 45-125: bind the listener while other processes listen on busy; on
\* success spawn the accept loop, which owns the listener and the Sender tx
StartLocalBind(c, busy) ==
    /\ call[c].op = "start_local" /\ call[c].pc = "bind"
    /\ \/ /\ ~BindConflict(call[c].bind, call[c].lport)
          /\ CanBind(busy, call[c].bind, call[c].lport)
          /\ \E l \in Loops :
              /\ task[l].st = "unspawned"
              /\ \A m \in Loops : m < l => task[m].st # "unspawned"
              /\ task' = [task EXCEPT ![l] =
                    [NoTask EXCEPT !.st = "idle", !.id = call[c].id,
                                   !.bind = call[c].bind,
                                   !.lport = call[c].lport,
                                   !.rhost = call[c].host,
                                   !.rport = call[c].rport]]
              /\ call' = [call EXCEPT ![c].pc = "insert", ![c].held = l]
          /\ NoReturn
       \/ \* Err(AddrInUse): this process or another one holds the port
          /\ \/ BindConflict(call[c].bind, call[c].lport)
             \/ ~CanBind(busy, call[c].bind, call[c].lport)
          /\ call' = [call EXCEPT ![c].pc = "diagnose", ![c].busy = busy]
          /\ NoReturn
          /\ UNCHANGED task
       \/ \* any other bind error
          /\ ~BindConflict(call[c].bind, call[c].lport)
          /\ Return(c, "start_local", FALSE, <<>>, "io")
          /\ UNCHANGED task
    /\ UNCHANGED <<local_listeners, conn, remoteVars, session_lock>>
    /\ NoOpen
    /\ UNCHANGED restVars
    /\ NoSent

\* lines 48-66: look for the process holding the port and for a free port
\* after it, and fail with the message made of both
StartLocalDiagnose(c) ==
    /\ call[c].op = "start_local" /\ call[c].pc = "diagnose"
    /\ \E process_info \in ProcInfos :
          ReturnPortInUse(c, call[c].lport, process_info,
                          find_next_available_port(call[c].busy \cup Listening,
                                                   call[c].lport, MaxAttempts))
    /\ UNCHANGED <<localVars, remoteVars, session_lock>>
    /\ NoOpen
    /\ UNCHANGED restVars
    /\ NoSent

\* lines 127-130: store (abort handle, tx_for_store) under the id
StartLocalInsert(c) ==
    /\ call[c].op = "start_local" /\ call[c].pc = "insert"
    /\ ~LocalLockHeld
    /\ local_listeners' = MapInsert(local_listeners, call[c].id, call[c].held)
    /\ Return(c, "start_local", TRUE, call[c].id, "")
    /\ UNCHANGED <<task, conn, remoteVars, session_lock>>
    /\ NoOpen
    /\ UNCHANGED restVars
    /\ NoSent

\* ------------------------------------------------------------ accept loop

\* the runtime polls a notified task that is not cancelled; the first poll
\* runs the loop head (rx = tx.subscribe())
LoopWake(l) ==
    /\ task[l].st = "idle" /\ ~task[l].aborted
    /\ task' = [task EXCEPT ![l].st = "running",
                            ![l].rx = IF @ = "none" THEN "empty" ELSE @]
    /\ UNCHANGED <<local_listeners, conn, remoteVars, session_lock, call>>
    /\ NoReturn
    /\ NoOpen
    /\ UNCHANGED restVars
    /\ NoSent

\* the runtime drops a cancelled task instead of polling it
LoopCancelled(l) ==
    /\ task[l].st = "idle" /\ task[l].aborted
    /\ task' = [task EXCEPT ![l] = FinishedTask(@)]
    /\ UNCHANGED <<local_listeners, conn, remoteVars, session_lock, call>>
    /\ NoReturn
    /\ NoOpen
    /\ UNCHANGED restVars
    /\ NoSent

\* line 83: listener.accept() yields an inbound connection
LoopAccept(l) ==
    /\ task[l].st = "running" /\ task[l].pc = "select"
    /\ \E k \in Conns : conn[k].st = "none"
    /\ task' = [task EXCEPT ![l].pc = "accepted"]
    /\ UNCHANGED <<local_listeners, conn, remoteVars, session_lock, call>>
    /\ NoReturn
    /\ NoOpen
    /\ UNCHANGED restVars
    /\ NoSent

\* lines 84-117 and 78-80: subscribe inner_rx, spawn the per-connection
\* task, then the next iteration's rx = tx.subscribe()
LoopSpawnConn(l) ==
    /\ task[l].st = "running" /\ task[l].pc = "accepted"
    /\ \E k \in Conns :
        /\ conn[k].st = "none"
        /\ \A j \in Conns : j < k => conn[j].st # "none"
        /\ conn' = [conn EXCEPT ![k] =
                        [NoConn EXCEPT !.st = "lock", !.loop = l]]
    /\ task' = [task EXCEPT ![l].pc = "select", ![l].rx = "empty"]
    /\ UNCHANGED <<local_listeners, remoteVars, session_lock, call>>
    /\ NoReturn
    /\ NoOpen
    /\ UNCHANGED restVars
    /\ NoSent

\* lines 119-122: rx.recv() yields the stop signal; break
LoopRecvStop(l) ==
    /\ task[l].st = "running" /\ task[l].pc = "select"
    /\ task[l].rx = "msg"
    /\ task' = [task EXCEPT ![l] = FinishedTask(@)]
    /\ UNCHANGED <<local_listeners, conn, remoteVars, session_lock, call>>
    /\ NoReturn
    /\ NoOpen
    /\ UNCHANGED restVars
    /\ NoSent

\* neither branch is ready: the poll returns Pending; a task cancelled
\* meanwhile is dropped here
LoopYield(l) ==
    /\ task[l].st = "running" /\ task[l].pc = "select"
    /\ task[l].rx # "msg"
    /\ task' = [task EXCEPT ![l] =
                    IF @.aborted THEN FinishedTask(@) ELSE [@ EXCEPT !.st = "idle"]]
    /\ UNCHANGED <<local_listeners, conn, remoteVars, session_lock, call>>
    /\ NoReturn
    /\ NoOpen
    /\ UNCHANGED restVars
    /\ NoSent

\* ---------------------------------------------------- per-connection task

\* line 91: session.lock().await
ConnLock(k) ==
    /\ conn[k].st = "lock"
    /\ session_lock = FreeLock
    /\ session_lock' = [kind |-> "conn", who |-> k]
    /\ conn' = [conn EXCEPT ![k].st = "open"]
    /\ UNCHANGED <<local_listeners, task, remoteVars, call>>
    /\ NoReturn
    /\ NoOpen
    /\ UNCHANGED restVars
    /\ NoSent

\* a guard that lives as long as the task
GuardAfterOpen_Kept(lock) == lock

\* line 99: session_guard is a local of the block of lines 90-99 and is
\* dropped where the block ends
GuardAfterOpen(lock) == FreeLock

\* lines 92-99: channel_open_direct_tcpip returns; the guard is dropped at
\* the end of the block, before any copying
ConnOpened(k) ==
    /\ conn[k].st = "open"
    /\ LoopFree
    /\ session_lock' = GuardAfterOpen(session_lock)
    /\ \/ conn' = [conn EXCEPT ![k].st = "copy", ![k].opened = TRUE]
       \/ conn' = [conn EXCEPT ![k] = FinishedConn(@)]
    /\ UNCHANGED <<local_listeners, task, remoteVars, call>>
    /\ NoReturn
    /\ NoOpen
    /\ UNCHANGED restVars
    /\ NoSent

\* lines 106-111: copy_bidirectional completes (a side closed or failed)
ConnCopyDone(k) ==
    /\ conn[k].st = "copy"
    /\ conn' = [conn EXCEPT ![k] = FinishedConn(@)]
    /\ UNCHANGED <<local_listeners, task, remoteVars, session_lock, call>>
    /\ NoReturn
    /\ NoOpen
    /\ UNCHANGED restVars
    /\ NoSent

\* a receive that completes only with a message
InnerRecvReady_MessageOnly(k) == conn[k].msg

\* inner_rx.recv() completes: with the stop message, or with Err(Closed)
\* once no Sender is left; the pattern `_` matches both
InnerRecvReady(k) == conn[k].msg \/ ChannelClosed(conn[k].loop)

\* lines 112-114: the copy is abandoned
ConnAborted(k) ==
    /\ conn[k].st = "copy"
    /\ InnerRecvReady(k)
    /\ conn' = [conn EXCEPT ![k] = FinishedConn(@)]
    /\ UNCHANGED <<local_listeners, task, remoteVars, session_lock, call>>
    /\ NoReturn
    /\ NoOpen
    /\ UNCHANGED restVars
    /\ NoSent

\* ------------------------------------------------------ stop_tunnel, local

\* lines 174-179 and 183-185: under the lock, remove the entry and send the
\* kill signal; an absent key is logged and ignored
StopLocal(c, session, id, override) ==
    /\ Idle(c)
    /\ StartsWith(id, StrLocal)
    /\ ~LocalLockHeld
    /\ IF id \in DOMAIN local_listeners
       THEN /\ local_listeners' = MapRemove(local_listeners, id)
            /\ Send(local_listeners[id])
            /\ call' = [call EXCEPT ![c] =
                    [IdleCall EXCEPT !.op = "stop_local", !.pc = "abort",
                                     !.id = id, !.held = local_listeners[id]]]
            /\ NoReturn
       ELSE /\ Return(c, "stop", TRUE, id, "not found")
            /\ UNCHANGED localVars
    /\ UNCHANGED <<remoteVars, session_lock>>
    /\ NoOpen
    /\ UNCHANGED restVars
    /\ NoSent

\* lines 180-182 and 212: abort the accept loop, drop (handle, tx), Ok(())
StopLocalAbort(c) ==
    /\ call[c].op = "stop_local" /\ call[c].pc = "abort"
    /\ task' = [task EXCEPT ![call[c].held] =
                    [Abort(@) EXCEPT !.stopped = TRUE]]
    /\ Return(c, "stop", TRUE, call[c].id, "")
    /\ UNCHANGED <<local_listeners, conn, remoteVars, session_lock>>
    /\ NoOpen
    /\ UNCHANGED restVars
    /\ NoSent

\* ------------------------------------------------ start_remote_forwarding

\* a check that never finds the port
PortRegistered_Never(forwards, rport) == FALSE

\* map.contains_key(&remote_port)
PortRegistered(forwards, rport) == rport \in DOMAIN forwards

\* lines 142-150: under the lock, return early when the port is registered,
\* else insert (local_host, local_port, bind_address)
StartRemoteRegister(c, session, bind, rport, lhost, lport) ==
    LET id == RemoteId(rport, lport) IN
    /\ Idle(c)
    /\ ~RemoteLockHeld
    /\ IF PortRegistered(remote_forwards, rport)
       THEN /\ ReturnOn(c, session, "start_remote", TRUE, id, "already active")
            /\ UNCHANGED remote_forwards
       ELSE /\ remote_forwards' =
                    MapInsert(remote_forwards, rport, <<lhost, lport, bind>>)
            /\ call' = [call EXCEPT ![c] =
                    [IdleCall EXCEPT !.op = "start_remote", !.pc = "session",
                                     !.bind = bind, !.rport = rport,
                                     !.host = lhost, !.lport = lport,
                                     !.id = id, !.pre = remote_forwards,
                                     !.handle = session]]
            /\ NoReturn
    /\ UNCHANGED <<localVars, server_forwards, requests, session_lock>>
    /\ NoOpen
    /\ UNCHANGED restVars
    /\ NoSent

\* line 152: session.lock().await
StartRemoteSession(c) ==
    /\ call[c].op = "start_remote" /\ call[c].pc = "session"
    /\ session_lock = FreeLock
    /\ session_lock' = [kind |-> "call", who |-> c]
    /\ call' = [call EXCEPT ![c].pc = "forward"]
    /\ UNCHANGED <<localVars, remoteVars>>
    /\ NoReturn
    /\ NoOpen
    /\ UNCHANGED restVars
    /\ NoSent

\* the registry after a tcpip_forward error: the `?` of line 160 returns
\* without touching the map
AfterForwardError(forwards, rport) == forwards

\* lines 157-168: tcpip_forward(bind_address, remote_port); the server grants
\* the forward or the request fails; the session guard drops on return
StartRemoteForward(c) ==
    /\ call[c].op = "start_remote" /\ call[c].pc = "forward"
    /\ LoopFreeOn(call[c].handle)
    /\ requests[call[c].rport] < MaxRequests
    /\ requests' = [requests EXCEPT ![call[c].rport] = @ + 1]
    /\ session_lock' = FreeLock
    /\ \/ /\ \A f \in server_forwards : f[2] # call[c].rport
          /\ server_forwards' =
                server_forwards \cup {<<call[c].bind, call[c].rport>>}
          /\ ReturnOn(c, call[c].handle, "start_remote", TRUE, call[c].id, "")
          /\ UNCHANGED remote_forwards
       \/ /\ ReturnOn(c, call[c].handle, "start_remote", FALSE, <<>>,
                       "remote_forward")
          /\ remote_forwards' = AfterForwardError(remote_forwards, call[c].rport)
          /\ UNCHANGED server_forwards
    /\ issued' = issued \cup {<<call[c].handle, call[c].rport>>}
    /\ UNCHANGED localVars
    /\ NoOpen
    /\ UNCHANGED <<ssh, event_loop, pureVars>>
    /\ sent' = [kind |-> "tcpip_forward", bind |-> call[c].bind,
                port |-> call[c].rport]

\* ----------------------------------------------------- stop_tunnel, remote

\* a parse that takes the second field whatever the number of fields
RemotePortOf_AnyFields(id) ==
    LET parts == Split(id, ":")
    IN IF Len(parts) >= 2 THEN ParseU16(parts[2]) ELSE None

\* lines 188-190: the remote port of "remote:<port>:<port>", if the id has
\* exactly three fields and the second parses as u16
RemotePortOf(id) ==
    LET parts == Split(id, ":")
    IN IF Len(parts) = 3 THEN ParseU16(parts[2]) ELSE None

\* lines 186-193 and 199-202: under the lock (held until return), remove the
\* entry; without a session nothing else happens; the session passed, if
\* any, is the handle of session A
StopRemote(c, session, id, override) ==
    /\ Idle(c)
    /\ ~StartsWith(id, StrLocal) /\ StartsWith(id, StrRemote)
    /\ RemotePortOf(id) # None
    /\ ~RemoteLockHeld
    /\ LET port == RemotePortOf(id)[1]
           had == port \in DOMAIN remote_forwards
       IN /\ remote_forwards' = MapRemove(remote_forwards, port)
          /\ requests' = [p \in RPorts |-> IF p = port THEN 0 ELSE requests[p]]
          /\ IF session
             THEN /\ call' = [call EXCEPT ![c] =
                        [IdleCall EXCEPT !.op = "stop_remote", !.pc = "session",
                                         !.id = id, !.rport = port,
                                         !.session = TRUE, !.override = override,
                                         !.handle = "A", !.had = had,
                                         !.saved = IF had
                                                   THEN remote_forwards[port][3]
                                                   ELSE ""]]
                  /\ NoReturn
             ELSE Return(c, "stop", TRUE, id, "")
          /\ issued' = {i \in issued : i[2] # port}
    /\ UNCHANGED <<localVars, server_forwards, session_lock>>
    /\ NoOpen
    /\ UNCHANGED <<ssh, event_loop, pureVars>>
    /\ NoSent

\* lines 194 and 203: session.lock().await
StopRemoteSession(c) ==
    /\ call[c].op = "stop_remote" /\ call[c].pc = "session"
    /\ session_lock = FreeLock
    /\ session_lock' = [kind |-> "call", who |-> c]
    /\ call' = [call EXCEPT ![c].pc = "cancel"]
    /\ UNCHANGED <<localVars, remoteVars>>
    /\ NoReturn
    /\ NoOpen
    /\ UNCHANGED restVars
    /\ NoSent

\* an address that forgets the saved bind address
CancelBind_NoSaved(override, had, saved) ==
    IF override # None THEN override[1] ELSE "0.0.0.0"

\* lines 195 and 204: bind_address_override, else the saved bind address of
\* the removed entry, else "0.0.0.0"
CancelBind(override, had, saved) ==
    IF override # None THEN override[1] ELSE IF had THEN saved ELSE "0.0.0.0"

\* lines 196-197, 205-206 and 212: cancel_tcpip_forward; its result is
\* discarded; the server drops the forward it holds for (bind, port), if any
StopRemoteCancel(c) ==
    /\ call[c].op = "stop_remote" /\ call[c].pc = "cancel"
    /\ LoopFreeOn(call[c].handle)
    /\ LET f == <<CancelBind(call[c].override, call[c].had, call[c].saved),
                  call[c].rport>>
       IN \/ server_forwards' = server_forwards \ {f}
          \/ /\ f \in server_forwards
             /\ server_forwards' = server_forwards
    /\ session_lock' = FreeLock
    /\ Return(c, "stop", TRUE, call[c].id, "")
    /\ UNCHANGED <<localVars, remote_forwards, requests>>
    /\ NoOpen
    /\ UNCHANGED restVars
    /\ sent' = [kind |-> "cancel_tcpip_forward",
                bind |-> CancelBind(call[c].override, call[c].had,
                                    call[c].saved),
                port |-> call[c].rport]

\* lines 174, 186, 189-190 and 212: an id that is neither local: nor a
\* well-formed remote: id; Ok(())
StopOther(c, session, id, override) ==
    /\ Idle(c)
    /\ ~StartsWith(id, StrLocal)
    /\ ~(StartsWith(id, StrRemote) /\ RemotePortOf(id) # None)
    /\ Return(c, "stop", TRUE, id, "")
    /\ UNCHANGED <<localVars, remoteVars, session_lock>>
    /\ NoOpen
    /\ UNCHANGED restVars
    /\ NoSent

\* ------------------------------------------------ handler (ssh.rs 40-79)

\* connected_port as u16
AsU16(p) == p % U16

\* server_channel_open_forwarded_tcpip: look the bound port up under the
\* registry lock; spawn a task dialing the target if one is found; Ok(())
HandledOpen(on, p) ==
    [port |-> p,
     present |-> p \in DOMAIN remote_forwards,
     entry |-> IF p \in DOMAIN remote_forwards
               THEN Some(<<remote_forwards[p][1], remote_forwards[p][2]>>)
               ELSE None,
     dialed |-> IF AsU16(p) \in DOMAIN remote_forwards
                THEN Some(<<remote_forwards[AsU16(p)][1],
                            remote_forwards[AsU16(p)][2]>>)
                ELSE None,
     ok |-> TRUE,
     on |-> on]

\* the open arrives on session `on` with bound port p while the registry
\* lock is free: the handler runs through
ForwardedTcpipOpen(on, p) ==
    /\ LoopFree
    /\ ~RemoteLockHeld
    /\ handled' = HandledOpen(on, p)
    /\ UNCHANGED <<localVars, remote_forwards, server_forwards, requests,
                   session_lock, call, sent, restVars>>
    /\ NoReturn

\* the open arrives while stop_tunnel holds the registry lock: the session
\* task, which awaits the handler, waits at remote_forwards.lock().await of
\* line 53 and takes no message and no packet meanwhile
HandlerEnter(on, p) ==
    /\ LoopFree
    /\ RemoteLockHeld
    /\ event_loop' = [pc |-> "handler", on |-> on, port |-> p]
    /\ UNCHANGED <<localVars, remote_forwards, server_forwards, requests,
                   session_lock, call, ssh, issued, pureVars>>
    /\ NoReturn
    /\ NoOpen
    /\ NoSent

\* the handler gets the registry lock and runs through
HandlerLocked ==
    /\ event_loop.pc = "handler"
    /\ ~RemoteLockHeld
    /\ handled' = HandledOpen(event_loop.on, event_loop.port)
    /\ event_loop' = IdleLoop
    /\ UNCHANGED <<localVars, remote_forwards, server_forwards, requests,
                   session_lock, call, ssh, issued, pureVars>>
    /\ NoReturn
    /\ NoSent

\* ------------------------------------------- SshManager::connect (ssh.rs)

\* the ConnectionConfig of hop j
ConfigHost(j) == <<"host", j>>
ConfigPort(j) == 2200 + j

\* a config that never has a jump host
HasJumpHost_Never(level) == FALSE

\* line 101: config.jump_host is Some
HasJumpHost(level) == level > 1

\* a handler that anchors nothing
KeptAlive_None(level) == 0

\* line 126: kept_alive_session: Some(jump_session) of the handler made for
\* a hop that has a jump host
KeptAlive(level) == level - 1

\* an error passed up as it is
Wrap_Bare(e) == e

\* line 106: anyhow!("Failed to connect to jump host: {}", e)
Wrap(e) == <<"Failed to connect to jump host: ">> \o e

\* line 117
ChannelError(e) ==
    <<"Failed to open direct-tcpip channel on jump host: ">> \o e

\* a check that lets every result pass
AuthPassed_Always(auth_res) == TRUE

\* line 182: if !auth_res { return Err(..) }
AuthPassed(auth_res) == auth_res

\* types.rs 16-19
AuthMethods == {"Password", "PrivateKey"}

\* lines 160-180: what the authentication of a hop comes to: the key file
\* cannot be read or decoded, the request fails, or the server answers
AuthOutcomes(method) ==
    IF method = "PrivateKey"
    THEN {"read_error", "decode_error", "error", "false", "true"}
    ELSE {"error", "false", "true"}

\* lines 169, 172, 175, 177 and 183: the error of a failed authentication
AuthError(outcome) ==
    CASE outcome = "read_error" -> <<"Failed to read private key file: ", "io">>
      [] outcome = "decode_error" -> <<"Failed to decode private key: ", "key">>
      [] outcome = "error" -> <<"russh">>
      [] OTHER -> <<"Authentication failed">>

Step(step, hop, res, to) == [step |-> step, hop |-> hop, res |-> res, to |-> to]

\* the locals of the frame of hop level are dropped when it returns:
\* jump_session unless it was moved into the handler, and with
\* drop_handler the handler that connect_stream consumed
DropLocals(sess, level, drop_handler) ==
    [j \in Hops |->
        IF /\ j = level - 1
           /\ \/ sess[j].handle = "jump_session"
              \/ drop_handler /\ sess[j].handle = "handler"
        THEN [sess[j] EXCEPT !.handle = "dropped"]
        ELSE sess[j]]

Quiet == \A j \in Hops : ssh.sess[j].st \in {"none", "closed"}

\* connect(config, tunnel_manager) is called with a chain of n hops
Connect(n) ==
    /\ ssh.pc \in {"idle", "returned"}
    /\ Quiet
    /\ ssh' = [NoConnect EXCEPT !.n = n, !.level = n, !.pc = "enter"]
    /\ UNCHANGED tunnelVars

\* lines 101-105: the config has a jump host: connect to it first
ConnectJump ==
    /\ ssh.pc = "enter"
    /\ HasJumpHost(ssh.level)
    /\ ssh' = [ssh EXCEPT !.level = @ - 1]
    /\ UNCHANGED tunnelVars

\* lines 137-143: no jump host: client::connect makes the TCP connection and
\* the handshake
ConnectDirect ==
    LET l == ssh.level IN
    /\ ssh.pc = "enter"
    /\ ~HasJumpHost(l)
    /\ \/ ssh' = [ssh EXCEPT
                    !.log = @ \o <<Step("tcp", l, "ok", <<>>),
                                   Step("handshake", l, "ok", <<>>)>>,
                    !.sess[l] = [st |-> "open", handle |-> "session",
                                 kept |-> 0],
                    !.pc = "auth"]
       \/ ssh' = [ssh EXCEPT
                    !.log = @ \o <<Step("tcp", l, "failed", <<>>)>>,
                    !.err = <<"io">>, !.pc = "error"]
       \/ ssh' = [ssh EXCEPT
                    !.log = @ \o <<Step("tcp", l, "ok", <<>>),
                                   Step("handshake", l, "failed", <<>>)>>,
                    !.err = <<"russh">>, !.pc = "error"]
    /\ UNCHANGED tunnelVars

\* lines 110-127: open the direct-tcpip channel to the hop on the session of
\* its jump host, then build the handler that holds jump_session
OpenChannel ==
    LET l == ssh.level IN
    /\ ssh.pc = "channel"
    /\ \/ ssh' = [ssh EXCEPT
                    !.log = @ \o <<Step("channel", l, "ok",
                                        <<l - 1, ConfigHost(l), ConfigPort(l),
                                          "0.0.0.0", 0>>)>>,
                    !.sess[l - 1].handle =
                        IF KeptAlive(l) = l - 1 THEN "handler" ELSE @,
                    !.pc = "handshake"]
       \/ ssh' = [ssh EXCEPT
                    !.log = @ \o <<Step("channel", l, "failed",
                                        <<l - 1, ConfigHost(l), ConfigPort(l),
                                          "0.0.0.0", 0>>)>>,
                    !.sess = DropLocals(@, l, FALSE),
                    !.err = ChannelError(<<"russh">>), !.pc = "error"]
    /\ UNCHANGED tunnelVars

\* line 130: connect_stream makes the handshake over the channel and consumes
\* the handler
Handshake ==
    LET l == ssh.level IN
    /\ ssh.pc = "handshake"
    /\ \/ ssh' = [ssh EXCEPT
                    !.log = @ \o <<Step("handshake", l, "ok", <<>>)>>,
                    !.sess[l] = [st |-> "open", handle |-> "session",
                                 kept |-> KeptAlive(l)],
                    !.pc = "auth"]
       \/ ssh' = [ssh EXCEPT
                    !.log = @ \o <<Step("handshake", l, "failed", <<>>)>>,
                    !.sess = DropLocals(@, l, TRUE),
                    !.err = <<"russh">>, !.pc = "error"]
    /\ UNCHANGED tunnelVars

\* lines 148-188 with 133 and 145: authenticate the hop; on success the
\* frame returns its session, to the frame above as jump_session or to the
\* caller; on failure the session is dropped with the closure of map
Authenticate ==
    LET l == ssh.level IN
    /\ ssh.pc = "auth"
    /\ \E method \in AuthMethods : \E outcome \in AuthOutcomes(method) :
          LET logged == ssh.log \o <<Step("auth", l, outcome, <<>>)>>
              locals == DropLocals(ssh.sess, l, FALSE)
          IN IF outcome \in {"true", "false"} /\ AuthPassed(outcome = "true")
             THEN IF l = ssh.n
                  THEN ssh' = [ssh EXCEPT
                                !.log = logged,
                                !.sess = [locals EXCEPT
                                            ![l].st = IF outcome = "true"
                                                      THEN "auth" ELSE @,
                                            ![l].handle = "caller"],
                                !.result = [ok |-> TRUE, handle |-> l,
                                            err |-> <<>>],
                                !.pc = "returned"]
                  ELSE ssh' = [ssh EXCEPT
                                !.log = logged,
                                !.sess = [locals EXCEPT
                                            ![l].st = IF outcome = "true"
                                                      THEN "auth" ELSE @,
                                            ![l].handle = "jump_session"],
                                !.level = l + 1,
                                !.pc = "channel"]
             ELSE ssh' = [ssh EXCEPT
                            !.log = logged,
                            !.sess = [locals EXCEPT ![l].handle = "dropped"],
                            !.err = AuthError(outcome),
                            !.pc = "error"]
    /\ UNCHANGED tunnelVars

\* lines 105-106: the connect of the jump host failed: the frame above
\* returns the error wrapped
ReturnJumpError ==
    /\ ssh.pc = "error"
    /\ ssh.level < ssh.n
    /\ ssh' = [ssh EXCEPT !.level = @ + 1, !.err = Wrap(@)]
    /\ UNCHANGED tunnelVars

\* the outermost frame returns its error to the caller
ReturnError ==
    /\ ssh.pc = "error"
    /\ ssh.level = ssh.n
    /\ ssh' = [ssh EXCEPT !.result = [ok |-> FALSE, handle |-> 0,
                                      err |-> ssh.err],
                          !.pc = "returned"]
    /\ UNCHANGED tunnelVars

\* the caller drops the handle connect returned
DropHandle ==
    /\ ssh.pc = "returned"
    /\ ssh.result.ok
    /\ ssh.sess[ssh.result.handle].handle = "caller"
    /\ ssh' = [ssh EXCEPT !.sess[ssh.result.handle].handle = "dropped"]
    /\ UNCHANGED tunnelVars

\* a session whose Handle was dropped ends: its task returns and drops the
\* handler, and with it the Handle in kept_alive_session
SessionEnds(j) ==
    /\ ssh.sess[j].st \in {"open", "auth"}
    /\ ssh.sess[j].handle = "dropped"
    /\ ssh' = [ssh EXCEPT !.sess =
                [i \in Hops |->
                    IF i = j THEN [@[i] EXCEPT !.st = "closed"]
                    ELSE IF i = @[j].kept /\ @[i].handle = "handler"
                    THEN [@[i] EXCEPT !.handle = "dropped"]
                    ELSE @[i]]]
    /\ UNCHANGED tunnelVars

\* ------------------------------- find_next_available_port, step by step

\* a listener that is not dropped
Dropped_Kept(listener) == listener

\* line 312: drop(listener)
Dropped(listener) == None

\* line 303: `for offset in 1..=max_attempts` starts
ProbeCall(start_port, max_attempts, held) ==
    [NoProbe EXCEPT !.pc = "loop", !.start_port = start_port,
                    !.max_attempts = max_attempts, !.held = held, !.offset = 1]

\* line 304
CandidatePort == SaturatingAdd(probe.start_port, probe.offset)

\* lines 305-307: the candidate is 0 or the start port itself: continue
ProbeSkip ==
    /\ probe.pc = "loop" /\ probe.offset <= probe.max_attempts
    /\ CandidatePort = 0 \/ CandidatePort = probe.start_port
    /\ probe' = [probe EXCEPT !.offset = @ + 1]
    /\ UNCHANGED <<managerVars, parser, sshconfig>>

\* lines 310-311 and 315: TcpListener::bind("127.0.0.1:<candidate>"); on an
\* error the loop goes on with the next offset
ProbeBind ==
    /\ probe.pc = "loop" /\ probe.offset <= probe.max_attempts
    /\ CandidatePort # 0 /\ CandidatePort # probe.start_port
    /\ IF CanBind(probe.held, "127.0.0.1", CandidatePort)
       THEN probe' = [probe EXCEPT !.pc = "bound",
                                   !.listener = Some(CandidatePort)]
       ELSE probe' = [probe EXCEPT !.offset = @ + 1]
    /\ UNCHANGED <<managerVars, parser, sshconfig>>

\* lines 312-313: release the listener and return the candidate
ProbeRelease ==
    /\ probe.pc = "bound"
    /\ probe' = [probe EXCEPT !.pc = "returned",
                              !.result = probe.listener,
                              !.listener = Dropped(probe.listener)]
    /\ UNCHANGED <<managerVars, parser, sshconfig>>

\* line 318: the range is exhausted
ProbeExhausted ==
    /\ probe.pc = "loop" /\ probe.offset > probe.max_attempts
    /\ probe' = [probe EXCEPT !.pc = "returned", !.result = None]
    /\ UNCHANGED <<managerVars, parser, sshconfig>>

\* ------------------------------------- parse_ssh_command (ssh_parser.rs)

\* A command is given as the occurrences of its flags, in the order of the
\* text: what local_re and remote_re capture of a -L or -R occurrence is
\* (first port digits, host, last port digits); any other flag matches
\* neither.  Port digits are strings, as the regex group (\d+) delivers them.
FlagSpec(flag, first, host, last) ==
    [flag |-> flag, first |-> first, host |-> host, last |-> last]

\* captures_iter of the regex of one flag
Captures(command, flag) == SelectSeq(command, LAMBDA e : e.flag = flag)

\* lines 46-53: a -L occurrence is local_port:remote_host:remote_port
LocalTunnel(cap) ==
    [tunnel_type |-> "local", local_port |-> ParseU16(cap.first)[1],
     remote_host |-> cap.host, remote_port |-> ParseU16(cap.last)[1]]

\* lines 63-73: a -R occurrence is remote_port:local_host:local_port
RemoteTunnel(cap) ==
    [tunnel_type |-> "remote", local_port |-> ParseU16(cap.last)[1],
     remote_host |-> cap.host, remote_port |-> ParseU16(cap.first)[1]]

\* lines 44-78: push a tunnel for each capture whose two ports parse as u16,
\* an error for each other one
RECURSIVE Extract(_, _, _)
Extract(caps, acc, local) ==
    IF caps = <<>> THEN acc
    ELSE LET cap == Head(caps)
             valid == ParseU16(cap.first) # None /\ ParseU16(cap.last) # None
         IN Extract(Tail(caps),
                [tunnels |-> IF valid
                             THEN Append(acc.tunnels,
                                         IF local THEN LocalTunnel(cap)
                                                  ELSE RemoteTunnel(cap))
                             ELSE acc.tunnels,
                 errors |-> IF valid THEN acc.errors
                            ELSE Append(acc.errors,
                                        <<"Invalid port numbers", cap.flag>>)],
                local)

\* a key that forgets the type of the tunnel
DuplicateKey_PortOnly(tunnel) ==
    IF tunnel.tunnel_type = "local" THEN tunnel.local_port
                                    ELSE tunnel.remote_port

\* line 87: format!("{}:{}", tunnel_type, local_port or remote_port)
DuplicateKey(tunnel) ==
    <<tunnel.tunnel_type,
      IF tunnel.tunnel_type = "local" THEN tunnel.local_port
                                      ELSE tunnel.remote_port>>

\* lines 85-92: an error for each tunnel whose key was seen before
RECURSIVE Duplicates(_, _, _)
Duplicates(tunnels, seen_ports, errors) ==
    IF tunnels = <<>> THEN errors
    ELSE LET tunnel == Head(tunnels)
             key == DuplicateKey(tunnel)
         IN Duplicates(Tail(tunnels), seen_ports \cup {key},
                       IF key \in seen_ports
                       THEN Append(errors,
                                   <<"Duplicate port", tunnel.tunnel_type,
                                     IF tunnel.tunnel_type = "local"
                                     THEN tunnel.local_port
                                     ELSE tunnel.remote_port>>)
                       ELSE errors)

NoFlagsFound == <<"No -L or -R tunnel flags found in command">>

\* lines 23-99
parse_ssh_command(command) ==
    LET locals == Extract(Captures(command, "-L"),
                          [tunnels |-> <<>>, errors |-> <<>>], TRUE)
        both == Extract(Captures(command, "-R"), locals, FALSE)
        tunnels == both.tunnels
        found == IF tunnels = <<>> THEN Append(both.errors, NoFlagsFound)
                 ELSE both.errors
        errors == Duplicates(tunnels, {}, found)
    IN [success |-> tunnels # <<>> /\ errors = <<>>,
        tunnels |-> tunnels,
        errors |-> errors]

ParseCommand ==
    /\ parser.pc = "call"
    /\ parser' = [parser EXCEPT !.pc = "returned",
                                !.result = parse_ssh_command(parser.command)]
    /\ UNCHANGED <<managerVars, probe, sshconfig>>

\* ------------------------------------------ parse_config (ssh_config.rs)

\* A config file is given as its directive lines after the split of lines
\* 45-53: the lower-cased key and the value, a String (sequence of
\* characters).  Blank lines and comments are skipped by lines 31-33.
ConfigLine(key, value) == [key |-> key, value |-> value]

\* str::contains(char)
Contains(str, ch) == \E i \in 1..Len(str) : str[i] = ch

\* a check that lets every name through
IsPattern_Never(name) == FALSE

\* lines 58 and 102: the name is a wildcard pattern
IsPattern(name) == Contains(name, "*") \/ Contains(name, "?")

\* format!("ssh_{}", Uuid::new_v4()): an id no other record has; k is the
\* number of the push
NewId(k) == <<"ssh_", k>>

\* lines 66-75: the record a Host directive begins
NewHost(name) ==
    [id |-> <<>>, name |-> name, host |-> <<>>,
     jump_server_alias |-> None, jump_server_id |-> None]

\* lines 57-63 and 101-106: push the current record, with a fresh id, unless
\* there is none or its name is a pattern
Push(connections, current_host) ==
    IF current_host = None \/ IsPattern(current_host[1].name)
    THEN connections
    ELSE Append(connections,
                [current_host[1] EXCEPT !.id = NewId(Len(connections) + 1)])

\* lines 29-98: the first pass over the lines
RECURSIVE ReadLines(_, _, _)
ReadLines(lines, connections, current_host) ==
    IF lines = <<>> THEN Push(connections, current_host)
    ELSE LET line == Head(lines) IN
         IF line.key = "host"
         THEN ReadLines(Tail(lines), Push(connections, current_host),
                        Some(NewHost(line.value)))
         ELSE IF current_host = None
         THEN ReadLines(Tail(lines), connections, current_host)
         ELSE ReadLines(Tail(lines), connections,
                Some(CASE line.key = "hostname" ->
                            [current_host[1] EXCEPT !.host = line.value]
                       [] line.key = "proxyjump" ->
                            [current_host[1] EXCEPT
                                !.jump_server_alias = Some(line.value)]
                       [] OTHER -> current_host[1]))

\* lines 109-111: the HashMap collected from (name, id) pairs: a later record
\* replaces an earlier one of the same name
AliasMapGet(connections, alias) ==
    LET named == {i \in 1..Len(connections) : connections[i].name = alias}
    IN IF named = {} THEN None
       ELSE Some(connections[CHOOSE i \in named : \A j \in named : j <= i].id)

\* lines 113-119: the second pass
Resolve(connections) ==
    [i \in 1..Len(connections) |->
        LET conn_i == connections[i] IN
        IF conn_i.jump_server_alias # None
           /\ AliasMapGet(connections, conn_i.jump_server_alias[1]) # None
        THEN [conn_i EXCEPT !.jump_server_id =
                    AliasMapGet(connections, conn_i.jump_server_alias[1])]
        ELSE conn_i]

\* lines 19-122, for a file that exists and can be read
parse_config(lines) == Resolve(ReadLines(lines, <<>>, None))

ParseConfig ==
    /\ sshconfig.pc = "call"
    /\ sshconfig' = [sshconfig EXCEPT !.pc = "returned",
                        !.connections = parse_config(sshconfig.lines)]
    /\ UNCHANGED <<managerVars, probe, parser>>

\* ---------------------------------------------------------- specifications

Malformed == {<<"x">>, StrRemote \o Dec(9000), StrRemote \o <<"x", ":", "1">>,
              StrRemote \o Dec(9000 + U16) \o <<":">> \o Dec(3000)}
LocalIds == {LocalId(lp, rp) : lp \in LocalPorts, rp \in RemotePorts \cup {5433}}
RemoteIds == {RemoteId(rp, lp) : rp \in RPorts, lp \in LPorts}
StopIds == LocalIds \cup RemoteIds \cup Malformed
Overrides == {None, Some("127.0.0.1")}

\* what other processes listen on when a tunnel is bound: nothing; the port
\* on every address; the port and the next one on the loopback address; the
\* same on another address; the port and every port probed after it
NoneBusy == {}
WildcardBusy == {<<"0.0.0.0", 8080>>}
LoopbackBusy == {<<"127.0.0.1", 8080>>, <<"127.0.0.1", 8081>>}
OtherAddrBusy == {<<"10.0.0.5", 8080>>, <<"10.0.0.5", 8081>>}
AllBusy == {<<"0.0.0.0", p>> : p \in 8080..(8080 + MaxAttempts)}
BusySets == {NoneBusy, WildcardBusy, LoopbackBusy, OtherAddrBusy, AllBusy}

\* API calls are made one after another by a single caller
SeqCallers == {1}

StartLocalCall(c) ==
    \E bind \in BindAddrs, lport \in LocalPorts,
       rhost \in RemoteHosts, rport \in RemotePorts :
        StartLocalCheck(c, bind, lport, rhost, rport)

StartRemoteCall(c) ==
    \E bind \in RBindAddrs, rport \in RPorts, lhost \in LHosts, lport \in LPorts :
        StartRemoteRegister(c, "A", bind, rport, lhost, lport)

StopCall(c) ==
    \E session \in BOOLEAN, id \in StopIds, override \in Overrides :
        \/ StopLocal(c, session, id, override)
        \/ StopRemote(c, session, id, override)
        \/ StopOther(c, session, id, override)

\* the accept loops when no client connects
LoopSteps(l) ==
    \/ LoopWake(l)
    \/ LoopCancelled(l)
    \/ LoopRecvStop(l)
    \/ LoopYield(l)

\* Spec: both kinds of tunnel and stop_tunnel on every kind of id, called one
\* after another; the accept loops run concurrently, no client connects
Next ==
    \/ \E c \in SeqCallers :
        \/ \E bind \in BindAddrs : StartLocalCheck(c, bind, 8080, "db", 5432)
        \/ \E busy \in {NoneBusy, WildcardBusy} : StartLocalBind(c, busy)
        \/ StartLocalDiagnose(c)
        \/ StartLocalInsert(c)
        \/ StartRemoteCall(c)
        \/ StartRemoteSession(c)
        \/ StartRemoteForward(c)
        \/ StopCall(c)
        \/ StopLocalAbort(c)
        \/ StopRemoteSession(c)
        \/ StopRemoteCancel(c)
    \/ \E l \in Loops : LoopSteps(l)

Spec == Init /\ [][Next]_vars

\* SpecLocalApi: start_local_forwarding with every combination of bind
\* address and remote host, and stop_tunnel, called one after another
NextLocalApi ==
    \/ \E c \in SeqCallers :
        \/ StartLocalCall(c)
        \/ \E busy \in BusySets : StartLocalBind(c, busy)
        \/ StartLocalDiagnose(c)
        \/ StartLocalInsert(c)
        \/ \E id \in LocalIds : StopLocal(c, FALSE, id, None)
        \/ StopLocalAbort(c)
    \/ \E l \in Loops : LoopSteps(l)

SpecLocalApi == Init /\ [][NextLocalApi]_vars

\* SpecLocal: one local tunnel started and stopped again and again while
\* clients connect to it: the accept loop, the per-connection tasks and the
\* calls run concurrently
NextLocal ==
    \/ \E c \in SeqCallers :
        \/ StartLocalCheck(c, "127.0.0.1", 8080, "db", 5432)
        \/ StartLocalBind(c, NoneBusy)
        \/ StartLocalDiagnose(c)
        \/ StartLocalInsert(c)
        \/ \E id \in LocalIds : StopLocal(c, FALSE, id, None)
        \/ StopLocalAbort(c)
    \/ \E l \in Loops : LoopSteps(l) \/ LoopAccept(l) \/ LoopSpawnConn(l)
    \/ \E k \in Conns : \/ ConnLock(k)
                        \/ ConnOpened(k)
                        \/ ConnCopyDone(k)
                        \/ ConnAborted(k)

SpecLocal == Init /\ [][NextLocal]_vars

\* a step of the accept loop l that the runtime owes once the task is
\* runnable; accepting depends on a client and is owed by nobody
LoopProgress(l) ==
    LoopCancelled(l) \/ LoopSpawnConn(l) \/ LoopRecvStop(l) \/ LoopYield(l)

\* a step of the per-connection task k that the runtime, the session mutex
\* and the server owe; the end of a copy depends on the streams
ConnProgress(k) == ConnLock(k) \/ ConnOpened(k) \/ ConnAborted(k)

\* the runtime keeps polling every runnable task, the mutex is handed over,
\* and the server answers a channel-open request; clients and streams owe
\* nothing
FairLocal ==
    /\ \A l \in Loops : WF_vars(LoopProgress(l))
    /\ \A k \in Conns : WF_vars(ConnProgress(k))
    /\ \A c \in SeqCallers : WF_vars(StopLocalAbort(c))

\* SpecLocalFair: one local tunnel started and stopped while clients connect
\* to it, under FairLocal; it is started again only when the accept loop of
\* the last start has ended, while connections of that loop may still run
NextLocalAfterEnd ==
    \/ \E c \in SeqCallers :
        \/ /\ \A l \in Loops : ~TaskAlive(l)
           /\ StartLocalCheck(c, "127.0.0.1", 8080, "db", 5432)
        \/ \E busy \in {NoneBusy, WildcardBusy} : StartLocalBind(c, busy)
        \/ StartLocalDiagnose(c)
        \/ StartLocalInsert(c)
        \/ StopLocal(c, FALSE, LocalId(8080, 5432), None)
        \/ StopLocalAbort(c)
    \/ \E l \in Loops : LoopSteps(l) \/ LoopAccept(l) \/ LoopSpawnConn(l)
    \/ \E k \in Conns : \/ ConnLock(k)
                        \/ ConnOpened(k)
                        \/ ConnCopyDone(k)
                        \/ ConnAborted(k)

SpecLocalFair == Init /\ [][NextLocalAfterEnd]_vars /\ FairLocal

\* SpecRemote: start_remote_forwarding and stop_tunnel called one after
\* another while the server delivers forwarded-tcpip opens to the handler
NextRemote ==
    \/ \E c \in SeqCallers :
        \/ StartRemoteCall(c)
        \/ StartRemoteSession(c)
        \/ StartRemoteForward(c)
        \/ \E session \in BOOLEAN, id \in RemoteIds, override \in Overrides :
                StopRemote(c, session, id, override)
        \/ StopRemoteSession(c)
        \/ StopRemoteCancel(c)
    \/ \E p \in InboundPorts : ForwardedTcpipOpen("A", p)

SpecRemote == Init /\ [][NextRemote]_vars

\* SpecRemoteConc: start_remote_forwarding called by several tasks at once on
\* one manager, with no stop, while the server delivers forwarded-tcpip opens
NextRemoteConc ==
    \/ \E c \in Callers :
        \/ StartRemoteCall(c)
        \/ StartRemoteSession(c)
        \/ StartRemoteForward(c)
    \/ \E p \in InboundPorts : ForwardedTcpipOpen("A", p)

SpecRemoteConc == Init /\ [][NextRemoteConc]_vars

\* SpecConnect: connect called with chains of every length, one call after
\* the sessions of the last one have ended; every step may fail
NextConnect ==
    \/ \E n \in Hops : Connect(n)
    \/ ConnectJump
    \/ ConnectDirect
    \/ OpenChannel
    \/ Handshake
    \/ Authenticate
    \/ ReturnJumpError
    \/ ReturnError
    \/ DropHandle
    \/ \E j \in Hops : SessionEnds(j)

SpecConnect == Init /\ [][NextConnect]_vars

\* a session whose Handle is gone ends
SpecConnectFair ==
    Init /\ [][NextConnect]_vars /\ \A j \in Hops : WF_vars(SessionEnds(j))

\* SpecStop: one local and one remote tunnel started and stopped by a single
\* caller, and stop_tunnel called with ids of every shape: no prefix, a
\* remote id with two or four fields, with an empty, a non-numeric or an
\* out-of-range port field, and the empty string
OddIds ==
    Malformed \cup {<<>>,
                    RemoteId(9000, 3000) \o <<":", "1">>,
                    StrRemote \o <<":">> \o Dec(3000),
                    StrRemote \o Dec(U16) \o <<":">> \o Dec(3000)}

NextStop ==
    \/ \E c \in SeqCallers :
        \/ StartLocalCheck(c, "127.0.0.1", 8080, "db", 5432)
        \/ StartLocalBind(c, NoneBusy)
        \/ StartLocalDiagnose(c)
        \/ StartLocalInsert(c)
        \/ StartRemoteRegister(c, "A", "0.0.0.0", 9000, "127.0.0.1", 3000)
        \/ StartRemoteSession(c)
        \/ StartRemoteForward(c)
        \/ \E session \in BOOLEAN, override \in Overrides :
            \E id \in {LocalId(8080, 5432), RemoteId(9000, 3000)} \cup OddIds :
                \/ StopLocal(c, session, id, override)
                \/ StopRemote(c, session, id, override)
                \/ StopOther(c, session, id, override)
        \/ StopLocalAbort(c)
        \/ StopRemoteSession(c)
        \/ StopRemoteCancel(c)
    \/ \E l \in Loops : LoopSteps(l)

SpecStop == Init /\ [][NextStop]_vars

\* SpecRemoteLoop: SpecRemote with the session tasks of the two sessions
\* that share the manager: an open that arrives on either while stop_tunnel
\* holds the registry lock keeps that session's task inside the handler.  The mutexes are handed over, the server answers a request the
\* session task has sent on, and the runtime polls every task that can run.
NextRemoteLoop ==
    \/ \E c \in SeqCallers :
        \/ StartRemoteCall(c)
        \/ StartRemoteSession(c)
        \/ StartRemoteForward(c)
        \/ \E session \in BOOLEAN, id \in RemoteIds, override \in Overrides :
                StopRemote(c, session, id, override)
        \/ StopRemoteSession(c)
        \/ StopRemoteCancel(c)
    \/ \E p \in InboundPorts : ForwardedTcpipOpen("A", p)
    \/ \E on \in Sessions, p \in InboundPorts : HandlerEnter(on, p)
    \/ HandlerLocked

FairRemote ==
    /\ \A c \in SeqCallers : /\ WF_vars(StopRemoteSession(c))
                              /\ WF_vars(StopRemoteCancel(c))
    /\ WF_vars(HandlerLocked)

SpecRemoteLoop == Init /\ [][NextRemoteLoop]_vars /\ FairRemote

\* SpecLocalConc: start_local_forwarding for one pair of ports, with either
\* bind address, and stop_tunnel, called by several tasks at once on one
\* manager; no client connects
NextLocalConc ==
    \/ \E c \in Callers :
        \/ \E bind \in BindAddrs : StartLocalCheck(c, bind, 8080, "db", 5432)
        \/ StartLocalBind(c, NoneBusy)
        \/ StartLocalDiagnose(c)
        \/ StartLocalInsert(c)
        \/ StopLocal(c, FALSE, LocalId(8080, 5432), None)
        \/ StopLocalAbort(c)
    \/ \E l \in Loops : LoopSteps(l)

SpecLocalConc == Init /\ [][NextLocalConc]_vars

\* SpecShared: one manager shared by two sessions, as connect hands the same
\* manager to the jump-host session and to the session behind it: remote
\* forwards are started and stopped with either handle by one caller, and
\* either server delivers forwarded-tcpip opens
NextShared ==
    \/ \E c \in SeqCallers :
        \/ \E session \in Sessions, bind \in RBindAddrs, rport \in RPorts,
              lhost \in LHosts, lport \in LPorts :
                StartRemoteRegister(c, session, bind, rport, lhost, lport)
        \/ StartRemoteSession(c)
        \/ StartRemoteForward(c)
        \/ \E session \in BOOLEAN, id \in RemoteIds, override \in Overrides :
                StopRemote(c, session, id, override)
        \/ StopRemoteSession(c)
        \/ StopRemoteCancel(c)
    \/ \E on \in Sessions, p \in InboundPorts : ForwardedTcpipOpen(on, p)

SpecShared == Init /\ [][NextShared]_vars

\* SpecProbe: find_next_available_port called with start ports near and far
\* from the top of the u16 range, while other sockets hold some of the ports
\* that follow on the loopback, the wildcard or another address
ProbeStarts == {0, 8080, U16 - 6, U16 - 2, U16 - 1}
ProbeAttempts == {0, 1, MaxAttempts}
ProbeHeld(start_port) ==
    {{},
     {<<"127.0.0.1", start_port + 1>>},
     {<<"0.0.0.0", start_port + 1>>, <<"127.0.0.1", start_port + 2>>},
     {<<"10.0.0.5", start_port + 1>>},
     {<<"127.0.0.1", q>> : q \in (start_port + 1)..(U16 - 1)
                                 \cap (start_port + 1)..(start_port + MaxAttempts)}}

InitProbe ==
    /\ InitManager /\ parser = NoParse /\ sshconfig = NoConfig
    /\ \E start_port \in ProbeStarts, max_attempts \in ProbeAttempts :
         \E held \in ProbeHeld(start_port) :
            probe = ProbeCall(start_port, max_attempts, held)

NextProbe == ProbeSkip \/ ProbeBind \/ ProbeRelease \/ ProbeExhausted

SpecProbe == InitProbe /\ [][NextProbe]_vars

\* SpecParse: parse_ssh_command called with every command of up to MaxFlags
\* flags: -L and -R with port digits in and out of the u16 range, and a flag
\* that is neither
PortDigits == {Dec(8080), Dec(70000)}
FlagSpecs ==
    {FlagSpec(flag, first, "db", last) :
        flag \in {"-L", "-R"}, first \in PortDigits,
        last \in {Dec(8080), Dec(5432)}}
    \cup {FlagSpec("-p", <<>>, "", <<>>)}
Commands == UNION {[1..n -> FlagSpecs] : n \in 0..MaxFlags}

InitParse ==
    /\ InitManager /\ probe = NoProbe /\ sshconfig = NoConfig
    /\ \E command \in Commands :
            parser = [NoParse EXCEPT !.pc = "call", !.command = command]

NextParse == ParseCommand

SpecParse == InitParse /\ [][NextParse]_vars

\* SpecConfig: parse_config called with every file of up to MaxLines
\* directives: Host with plain names and patterns, ProxyJump naming a plain
\* host or a pattern, and HostName
HostNames == {<<"a">>, <<"b">>, <<"*">>, <<"w", "?">>}
JumpAliases == {<<"a">>, <<"*">>}
ConfigLines ==
    {ConfigLine("host", name) : name \in HostNames}
    \cup {ConfigLine("proxyjump", alias) : alias \in JumpAliases}
    \cup {ConfigLine("hostname", <<"h">>)}
ConfigFiles == UNION {[1..n -> ConfigLines] : n \in 0..MaxLines}

InitConfig ==
    /\ InitManager /\ probe = NoProbe /\ parser = NoParse
    /\ \E lines \in ConfigFiles :
            sshconfig = [NoConfig EXCEPT !.pc = "call", !.lines = lines]

NextConfig == ParseConfig

SpecConfig == InitConfig /\ [][NextConfig]_vars

\* ------------------------------------------------------------------ claims

\* some call has just returned
JustReturned == \E c \in Callers : ret[c].op # "none"

\* an accept loop that can still run: it is being polled, or it is suspended
\* and has not been cancelled.  A cancelled, suspended task is never polled
\* again and is not counted.
LoopLive(l) ==
    task[l].st = "running" \/ (task[l].st = "idle" /\ ~task[l].aborted)

LiveLoopIds == {task[l].id : l \in {m \in Loops : LoopLive(m)}}

\* C1: after each start_local_forwarding or stop_tunnel call returns, the keys
\* of the local registry are exactly the tunnel ids that have a live accept
\* loop.
C1_RegistryMatchesLiveLoops ==
    JustReturned => DOMAIN local_listeners = LiveLoopIds

\* C9: once stop_tunnel on a registered local tunnel has returned, the
\* tunnel's accept loop accepts no further connection and spawns no further
\* per-connection task.
C9_NoAcceptAfterStop ==
    [][\A l \in Loops :
          task[l].stopped =>
            /\ (task'[l].pc = "accepted" => task[l].pc = "accepted")
            /\ \A k \in Conns :
                  (conn[k].st = "none" /\ conn'[k].st # "none")
                      => conn'[k].loop # l]_vars

ConnRunning(k) == conn[k].st \in {"lock", "open", "copy"}

\* C10: after stop_tunnel on a registered local tunnel has returned, every
\* per-connection task spawned by the tunnel's accept loop eventually
\* terminates, without any help from the forwarded streams.
C10_ConnsTerminateAfterStop ==
    \A k \in Conns :
        (ConnRunning(k) /\ task[conn[k].loop].stopped) ~> (conn[k].st = "done")

\* a per-connection task of a stopped tunnel that got no stop message (it
\* subscribed after the send) and has to see the channel closed
C10_Witness ==
    \E k \in Conns :
        ConnRunning(k) /\ ~conn[k].msg /\ task[conn[k].loop].stopped

\* ---- remote registry

ServerPorts == {f[2] : f \in server_forwards}

\* C2: after each start_remote_forwarding or stop_tunnel call returns, a
\* remote port is a key of the remote registry if and only if the server holds
\* a forward for that port.
C2_RegistryMatchesServer ==
    JustReturned => DOMAIN remote_forwards = ServerPorts

\* C3: when the forward request of start_remote_forwarding fails, the call
\* fails with a remote-forward error and the remote registry is the one from
\* before the call.
C3_FailedForwardRollsBack ==
    [][\A c \in Callers :
          (/\ call[c].op = "start_remote" /\ call[c].pc = "forward"
           /\ ret'[c].op = "start_remote" /\ ~ret'[c].ok)
          => /\ ret'[c].msg = "remote_forward"
             /\ remote_forwards' = call[c].pre]_vars

\* C4: for an inbound forwarded-tcpip open with bound port p the handler
\* returns success and dials the target recorded for p if the registry
\* contains p, and nothing if it does not.
C4_HandlerDialsRecordedTarget ==
    handled.port # 0 => handled.ok /\ handled.dialed = handled.entry

\* C6: start_remote_forwarding on a registered remote port returns the id of
\* the existing tunnel, the one made of the port and the registered local
\* port.
C6_ReturnsExistingRemoteId ==
    \A c \in Callers :
        (ret[c].op = "start_remote" /\ ret[c].msg = "already active")
        => \E p \in DOMAIN remote_forwards :
              ret[c].id = RemoteId(p, remote_forwards[p][2])

\* C7: however start_remote_forwarding calls for one remote port interleave,
\* with no stop, the forward is requested at most once for the port and a
\* registered entry is never overwritten.
C7_RequestedOnceNeverOverwritten ==
    [][/\ \A p \in RPorts : requests'[p] <= 1
       /\ \A p \in DOMAIN remote_forwards :
            /\ p \in DOMAIN remote_forwards'
            /\ remote_forwards'[p] = remote_forwards[p]]_vars

\* a start returned early for a port whose first registrant is still
\* waiting for the session or for the server's answer
C7_Witness ==
    \E c, d \in Callers :
        /\ ret[c].op = "start_remote" /\ ret[c].msg = "already active"
        /\ call[d].op = "start_remote"
        /\ call[d].rport \in DOMAIN remote_forwards

\* ---- local registry

\* C5: start_local_forwarding for an id already in the local registry returns
\* that id with success and leaves the registry, the listeners and the accept
\* loops as they are, whatever bind address and remote host it is given.
C5_StartLocalIdempotent ==
    [][\A c \in Callers, bind \in BindAddrs, lport \in LocalPorts,
          rhost \in RemoteHosts, rport \in RemotePorts :
          (/\ LocalId(lport, rport) \in DOMAIN local_listeners
           /\ StartLocalCheck(c, bind, lport, rhost, rport))
          => /\ ret'[c].op = "start_local" /\ ret'[c].ok
             /\ ret'[c].id = LocalId(lport, rport)
             /\ call'[c] = IdleCall
             /\ UNCHANGED <<local_listeners, task, conn>>]_vars

\* a start returned early for a registered id whose accept loop was started
\* with another bind address or remote host
C5_Witness ==
    \E c \in Callers :
        /\ ret[c].op = "start_local" /\ ret[c].msg = "already active"
        /\ ret[c].id \in DOMAIN local_listeners
        /\ Cardinality({<<task[l].bind, task[l].rhost>> :
                            l \in {m \in Loops : task[m].id = ret[c].id
                                                  /\ TaskAlive(m)}}) = 1

\* ---- stop_tunnel

\* the id names a registered tunnel: a key of the local registry, or a
\* remote id whose port is a key of the remote registry
Known(listeners, forwards, id) ==
    \/ id \in DOMAIN listeners
    \/ /\ StartsWith(id, StrRemote)
       /\ RemotePortOf(id) # None
       /\ RemotePortOf(id)[1] \in DOMAIN forwards

\* a step of a stop_tunnel call whose id is not registered: the call
\* returns at once, or it is a step of a stop of a remote id that found no
\* entry
UnknownStopStep(c) ==
    \/ /\ Idle(c)
       /\ ret'[c].op = "stop"
       /\ ~Known(local_listeners, remote_forwards, ret'[c].id)
    \/ /\ Idle(c)
       /\ call'[c].op = "stop_remote" /\ ~call'[c].had
    \/ /\ call[c].op = "stop_remote" /\ ~call[c].had
       /\ call'[c] # call[c]

\* C8: stop_tunnel returns success for every id; for an id that is not
\* registered it changes neither registry and no accept loop; when it
\* returns the id is not registered, so a second stop changes nothing.
C8_StopNeverFailsUnknownNoOp ==
    [][\A c \in Callers :
          /\ ret'[c].op = "stop" =>
                /\ ret'[c].ok
                /\ ~Known(local_listeners', remote_forwards', ret'[c].id)
          /\ UnknownStopStep(c) =>
                UNCHANGED <<local_listeners, remote_forwards, task>>]_vars

\* a second stop of a local tunnel that was stopped before
C8_Witness ==
    \E c \in Callers, l \in Loops :
        /\ ret[c].op = "stop" /\ ret[c].msg = "not found"
        /\ task[l].id = ret[c].id /\ task[l].stopped

\* ---- ordering of registry updates and protocol requests

\* a start_remote_forwarding call for port p holds the session to send its
\* request, or has sent it and is waiting for the answer
ForwardInFlight(c, p) ==
    call[c].op = "start_remote" /\ call[c].pc = "forward" /\ call[c].rport = p

\* the server can open forwarded channels for p: a request for p is in
\* flight or was granted
RequestReceived(p) ==
    p \in ServerPorts \/ \E c \in Callers : ForwardInFlight(c, p)

\* C11: the entry of a remote port is registered before its forward request
\* is sent, so an inbound open for the port that arrives once the request is
\* on its way, granted or not yet answered, finds the registered target.
C11_OpenAfterRequestFindsTarget ==
    [][\A p \in RPorts :
          (handled'.port = p /\ RequestReceived(p))
          => /\ handled'.dialed # None
             /\ \A c \in Callers :
                  ForwardInFlight(c, p)
                  => handled'.dialed = Some(<<call[c].host, call[c].lport>>)]_vars

\* an open served while the request for its port is not yet answered
C11_Witness ==
    /\ handled.port \in RPorts
    /\ handled.dialed # None
    /\ \E c \in Callers : ForwardInFlight(c, handled.port)

\* C12: stop_tunnel on a remote id removes the registry entry before it sends
\* the cancel request, so an inbound open for the port that is looked up after
\* the cancel request was sent is declined: nothing is dialed.
C12_LateOpenDeclined ==
    [][/\ sent'.kind = "cancel_tcpip_forward"
            => /\ sent'.port \notin DOMAIN remote_forwards
               /\ sent'.port \notin DOMAIN remote_forwards'
       /\ (sent.kind = "cancel_tcpip_forward" /\ handled'.port = sent.port)
            => handled'.dialed = None]_vars

\* the cancel request was sent, the server still forwards the port, and an
\* open for the port was declined
C12_Witness ==
    /\ sent.kind = "cancel_tcpip_forward"
    /\ handled.port = sent.port
    /\ handled.dialed = None
    /\ sent.port \in ServerPorts

\* ---- per-connection tasks and the session lock

\* C13: no per-connection task holds the session lock while it copies: the
\* lock is held only by a task that is opening its channel, so a copy never
\* keeps another task from locking the session.
C13_NoLockDuringCopy ==
    /\ \A k \in Conns :
          conn[k].st = "copy" => session_lock # [kind |-> "conn", who |-> k]
    /\ session_lock.kind = "conn" => conn[session_lock.who].st = "open"

\* one connection copies while another one holds the lock to open its channel
C13_Witness ==
    \E k, j \in Conns :
        /\ conn[k].st = "copy"
        /\ conn[j].st = "open"
        /\ session_lock = [kind |-> "conn", who |-> j]

\* C20: when a per-connection task fails to open its channel, it releases the
\* session lock and ends without copying, and nothing else changes: the
\* accept loops, the registry and the other per-connection tasks are as
\* before.
C20_OpenFailureDropsOneConnection ==
    [][\A k \in Conns :
          (conn[k].st = "open" /\ conn'[k].st = "done")
          => /\ ~conn'[k].opened
             /\ session_lock' = FreeLock
             /\ UNCHANGED <<local_listeners, task>>
             /\ \A j \in Conns \ {k} : conn'[j] = conn[j]]_vars

\* a connection whose channel open failed is gone while another connection
\* of the same registered tunnel copies and the loop still runs
C20_Witness ==
    \E k, j \in Conns :
        /\ conn[k].st = "done" /\ ~conn[k].opened
        /\ conn[j].st = "copy"
        /\ LoopLive(conn[j].loop)
        /\ task[conn[j].loop].id \in DOMAIN local_listeners

\* ---- stop_tunnel on a remote id

\* the bind address the cancel request has to carry
EffectiveBind(c) ==
    IF call[c].override # None THEN call[c].override[1]
    ELSE IF call[c].had THEN call[c].saved
    ELSE "0.0.0.0"

WellFormedRemote(id) == StartsWith(id, StrRemote) /\ RemotePortOf(id) # None

\* C19: stop_tunnel on a well-formed remote id removes the port's entry if
\* there is one; with a session it sends exactly one cancel request, for the
\* port and the override, else the stored bind address, else 0.0.0.0;
\* without a session it sends none.
C19_StopRemoteCancelsOnce ==
    [][\A c \in Callers :
          /\ (Idle(c) /\ call'[c].op = "stop_remote")
                => LET p == call'[c].rport
                   IN /\ Some(p) = RemotePortOf(call'[c].id)
                      /\ p \notin DOMAIN remote_forwards'
                      /\ call'[c].had = (p \in DOMAIN remote_forwards)
                      /\ call'[c].had => call'[c].saved = remote_forwards[p][3]
                      /\ sent'.kind = "none"
          /\ (call[c].op = "stop_remote" /\ call'[c] # call[c])
                => IF ret'[c].op = "stop"
                   THEN /\ call[c].pc = "cancel"
                        /\ sent' = [kind |-> "cancel_tcpip_forward",
                                    bind |-> EffectiveBind(c),
                                    port |-> call[c].rport]
                   ELSE sent'.kind = "none"
          /\ (Idle(c) /\ ret'[c].op = "stop" /\ WellFormedRemote(ret'[c].id))
                => /\ RemotePortOf(ret'[c].id)[1] \notin DOMAIN remote_forwards'
                   /\ sent'.kind = "none"]_vars

\* a stop with a session has returned after cancelling the forward the
\* server held under the bind address sent
C19_Witness ==
    /\ \E c \in Callers : ret[c].op = "stop" /\ WellFormedRemote(ret[c].id)
    /\ sent.kind = "cancel_tcpip_forward"
    /\ sent.bind = "127.0.0.1"
    /\ server_forwards = {}
    /\ sent.port \notin DOMAIN remote_forwards

\* ---- port-in-use diagnostics

Min(S) == CHOOSE x \in S : \A y \in S : x <= y

\* the ports after the one asked for, up to ten further, on which the bind
\* address of the call can be bound
BindableAfter(c) ==
    {p \in (call[c].lport + 1)..(call[c].lport + MaxAttempts) :
        p < U16 /\ CanBind(call[c].busy \cup Listening, call[c].bind, p)}

Alive(j) == ssh.sess[j].st \in {"open", "auth"}

LastStep == ssh.log[Len(ssh.log)]

\* C14: while a session built through a jump host is alive, the session of
\* its jump host is alive too and its Handle is held by the child's handler,
\* from before the child's handshake on, at every depth of the chain.
C14_ParentOutlivesChild ==
    /\ \A j \in Hops :
          (j > 1 /\ Alive(j))
          => /\ Alive(j - 1)
             /\ ssh.sess[j].kept = j - 1
             /\ ssh.sess[j - 1].handle = "handler"
    /\ ssh.pc = "handshake"
          => /\ Alive(ssh.level - 1)
             /\ ssh.sess[ssh.level - 1].handle = "handler"

\* in a chain of three hops the target has ended and has released its jump
\* host, which is still alive, as is the jump host before it
C14_Witness ==
    /\ ssh.n > 2
    /\ \E j \in Hops :
          /\ j > 2
          /\ ssh.sess[j].st = "closed"
          /\ Alive(j - 1) /\ ssh.sess[j - 1].handle = "dropped"
          /\ Alive(j - 2) /\ ssh.sess[j - 2].handle = "handler"

\* the step that has to come right before a step, successfully
ComesAfter(e, before) ==
    CASE e.step = "handshake" ->
            /\ before.step = (IF e.hop = 1 THEN "tcp" ELSE "channel")
            /\ before.hop = e.hop /\ before.res = "ok"
      [] e.step = "auth" ->
            before = Step("handshake", e.hop, "ok", <<>>)
      [] e.step = "channel" ->
            before = Step("auth", e.hop - 1, "true", <<>>)
      [] OTHER -> FALSE

\* C15: connect makes its steps in order, each after the one before it has
\* succeeded: for a hop with a jump host, the jump host is authenticated, a
\* direct-tcpip channel to the hop's host and port is opened on it with
\* originator 0.0.0.0:0, the handshake is made, the hop is authenticated;
\* for a hop with none, TCP connect, handshake, authentication, no channel.
C15_StepsInOrder ==
    /\ \A i \in 1..Len(ssh.log) :
          LET e == ssh.log[i] IN
          /\ e.step = "tcp" => (i = 1 /\ e.hop = 1)
          /\ e.step # "tcp" => (i > 1 /\ ComesAfter(e, ssh.log[i - 1]))
          /\ e.step = "channel" =>
                /\ e.hop > 1
                /\ e.to = <<e.hop - 1, ConfigHost(e.hop), ConfigPort(e.hop),
                            "0.0.0.0", 0>>
    /\ (ssh.pc = "returned" /\ ssh.result.ok)
          => /\ Len(ssh.log) = 3 * ssh.n
             /\ LastStep.step = "auth" /\ LastStep.hop = ssh.n

\* connect through two jump hosts has returned a session
C15_Witness ==
    ssh.pc = "returned" /\ ssh.result.ok /\ ssh.n > 2

\* the authenticator of the target has answered no
AuthRefused ==
    /\ ssh.pc = "returned"
    /\ LastStep = Step("auth", ssh.n, "false", <<>>)

\* C16: connect returns a session only if the authentication of the target
\* was positive; when it is negative connect fails with an authentication
\* error and returns no session, and the target's session and the sessions
\* it anchors end.
C16_HandleOnlyIfAuthenticated ==
    /\ []((ssh.pc = "returned" /\ ssh.result.ok)
            => /\ LastStep = Step("auth", ssh.n, "true", <<>>)
               /\ ssh.result.handle = ssh.n)
    /\ [](AuthRefused
            => /\ ssh.result = [ok |-> FALSE, handle |-> 0,
                                err |-> <<"Authentication failed">>]
               /\ ssh.sess[ssh.n].handle = "dropped")
    /\ (AuthRefused ~> (AuthRefused /\ Quiet))

\* a target behind a jump host has refused the authentication and every
\* session of the chain has ended
C16_Witness == AuthRefused /\ ssh.n > 1 /\ Quiet

\* the error of the frame in which a step failed
FrameError(e) ==
    CASE e.step = "tcp" -> <<"io">>
      [] e.step = "handshake" -> <<"russh">>
      [] e.step = "channel" ->
            <<"Failed to open direct-tcpip channel on jump host: ", "russh">>
      [] OTHER -> AuthError(e.res)

RECURSIVE JumpHostError(_, _)
JumpHostError(inner, depth) ==
    IF depth = 0 THEN inner
    ELSE <<"Failed to connect to jump host: ">> \o JumpHostError(inner, depth - 1)

\* C17: when the connect of a jump host fails, at any depth, the frame above
\* fails with a jump-host error around that error and makes no step of its
\* own: no channel is opened, no handshake and no authentication is tried for
\* the hops above the one that failed.
C17_JumpFailureWrapped ==
    [][/\ (ssh.pc = "error" /\ ssh'.level = ssh.level + 1)
            => /\ ssh'.err = <<"Failed to connect to jump host: ">> \o ssh.err
               /\ ssh'.pc = "error"
               /\ ssh'.log = ssh.log
               /\ ssh'.sess = ssh.sess
       /\ (ssh'.pc = "returned" /\ ~ssh'.result.ok)
            => LET last == ssh'.log[Len(ssh'.log)]
               IN /\ ssh'.result.err =
                        JumpHostError(FrameError(last), ssh'.n - last.hop)
                  /\ \A i \in 1..Len(ssh'.log) : ssh'.log[i].hop <= last.hop
                  /\ ssh'.result.handle = 0]_vars

\* the first hop of a chain of three has refused the authentication and the
\* caller got the error wrapped twice
C17_Witness ==
    /\ ssh.pc = "returned" /\ ~ssh.result.ok
    /\ ssh.n > 2
    /\ LastStep = Step("auth", 1, "false", <<>>)
    /\ ssh.result.err = <<"Failed to connect to jump host: ",
                          "Failed to connect to jump host: ",
                          "Authentication failed">>

\* ---- find_next_available_port

\* the ports after start_port, at most max_attempts of them, that a listener
\* on 127.0.0.1 can bind
FreeAfter ==
    {q \in (probe.start_port + 1)..(probe.start_port + probe.max_attempts) :
        q <= 65535 /\ CanBind(probe.held, "127.0.0.1", q)}

\* C21: find_next_available_port returns the smallest port start+k, with
\* 1 <= k <= max_attempts, that can be bound on 127.0.0.1, or nothing when
\* there is none; the result is greater than start and at most 65535, also
\* when start+max_attempts exceeds 65535 (nothing for start = 65535); it
\* holds no listener when it returns.
C21_FirstFreePortAfterStart ==
    probe.pc = "returned" =>
        /\ probe.result = IF FreeAfter = {} THEN None ELSE Some(Min(FreeAfter))
        /\ probe.result # None =>
                (probe.result[1] > probe.start_port /\ probe.result[1] <= 65535)
        /\ probe.start_port = 65535 => probe.result = None
        /\ probe.listener = None

\* a call whose range of candidates passes 65535 has found its first
\* candidate busy and has returned a later one
C21_Witness ==
    /\ probe.pc = "returned"
    /\ probe.start_port + probe.max_attempts > 65535
    /\ probe.offset > 1
    /\ probe.result # None

\* ---- parse_ssh_command

\* the port a duplicate check is about: the local port of a local tunnel,
\* the remote port of a remote tunnel
KeyPort(t) == IF t.tunnel_type = "local" THEN t.local_port ELSE t.remote_port

\* two of the tunnels have this type and this port
SharedPort(tunnels, type, port) ==
    \E i, j \in 1..Len(tunnels) :
        /\ i < j
        /\ tunnels[i].tunnel_type = type /\ tunnels[j].tunnel_type = type
        /\ KeyPort(tunnels[i]) = port /\ KeyPort(tunnels[j]) = port

\* C22: parse_ssh_command reports success exactly when at least one tunnel
\* was parsed and the error list is empty; it adds an error when the command
\* has no -L or -R; it adds a duplicate-port error whenever two local tunnels
\* share a local port or two remote tunnels share a remote port, and none for
\* a local and a remote tunnel with the same port number.
C22_SuccessAndDuplicates ==
    parser.pc = "returned" =>
        LET r == parser.result IN
        /\ r.success <=> (Len(r.tunnels) >= 1 /\ r.errors = <<>>)
        /\ (\A i \in 1..Len(parser.command) :
                parser.command[i].flag \notin {"-L", "-R"})
              => \E i \in 1..Len(r.errors) :
                    r.errors[i] = <<"No -L or -R tunnel flags found in command">>
        /\ \A type \in {"local", "remote"} :
              \A port \in {KeyPort(r.tunnels[i]) : i \in 1..Len(r.tunnels)} :
                SharedPort(r.tunnels, type, port)
                => \E i \in 1..Len(r.errors) :
                      r.errors[i] = <<"Duplicate port", type, port>>
        /\ \A i \in 1..Len(r.errors) :
              r.errors[i][1] = "Duplicate port"
              => SharedPort(r.tunnels, r.errors[i][2], r.errors[i][3])

\* a local and a remote tunnel with the same port number were parsed and
\* the call reports success
C22_Witness ==
    /\ parser.pc = "returned"
    /\ parser.result.success
    /\ \E i, j \in 1..Len(parser.result.tunnels) :
          /\ parser.result.tunnels[i].tunnel_type = "local"
          /\ parser.result.tunnels[j].tunnel_type = "remote"
          /\ parser.result.tunnels[i].local_port
                = parser.result.tunnels[j].remote_port

\* ---- parse_config

\* C23: no record returned by parse_config has a name containing '*' or
\* '?'; a returned record with a ProxyJump alias has jump_server_id set to
\* the id of the returned record of that name when there is one, and unset
\* otherwise, as when the alias names a skipped wildcard host.
C23_NoPatternsJumpResolved ==
    sshconfig.pc = "returned" =>
        LET cs == sshconfig.connections IN
        \A i \in 1..Len(cs) :
            /\ \A k \in 1..Len(cs[i].name) : cs[i].name[k] \notin {"*", "?"}
            /\ \A j \in 1..Len(cs) : i # j => cs[i].id # cs[j].id
            /\ cs[i].jump_server_alias # None =>
                  IF \E j \in 1..Len(cs) : cs[j].name = cs[i].jump_server_alias[1]
                  THEN \E j \in 1..Len(cs) :
                          /\ cs[j].name = cs[i].jump_server_alias[1]
                          /\ cs[i].jump_server_id = Some(cs[j].id)
                  ELSE cs[i].jump_server_id = None

\* of a file with a wildcard host, one returned record has its alias resolved
\* to another record and one has an alias that names the wildcard host
C23_Witness ==
    /\ sshconfig.pc = "returned"
    /\ \E k \in 1..Len(sshconfig.lines) :
          sshconfig.lines[k] = [key |-> "host", value |-> <<"*">>]
    /\ \E i, j \in 1..Len(sshconfig.connections) :
          /\ i # j
          /\ sshconfig.connections[i].jump_server_id
                = Some(sshconfig.connections[j].id)
    /\ \E i \in 1..Len(sshconfig.connections) :
          /\ sshconfig.connections[i].jump_server_alias = Some(<<"*">>)
          /\ sshconfig.connections[i].jump_server_id = None

\* ---- concurrent start_local_forwarding

\* an accept loop that can run and that no stop_tunnel has signalled
Unstopped(l) == LoopLive(l) /\ ~task[l].stopped

\* C24: however concurrent start_local_forwarding calls with the same
\* tunnel id interleave, at most one accept loop is live for the id, and the
\* abort token and broadcaster of every live loop are in the local registry
\* (or in the hands of the call that is about to store or has just removed
\* them), so that stop_tunnel can stop the loop.
C24_OneStoppableLoopPerId ==
    /\ \A l, m \in Loops :
          (l # m /\ Unstopped(l) /\ Unstopped(m)) => task[l].id # task[m].id
    /\ \A l \in Loops : Unstopped(l) => StoreHeld(l)

\* ---- stop_tunnel and the session task

\* C25: every stop_tunnel call on a remote id returns in the end and the
\* session task keeps going, however the call interleaves with forwarded-tcpip
\* opens served by the handler: stop_tunnel, holding the registry lock while
\* it waits for the session lock or the cancel reply, and the handler,
\* waiting for the registry lock, never wait on each other for ever.
C25_StopRemoteReturns ==
    /\ \A c \in Callers : (call[c].op = "stop_remote") ~> Idle(c)
    /\ (event_loop.pc = "handler") ~> LoopFree

\* ---- restart of a local tunnel

\* C26: after stop_tunnel on a registered local tunnel the accept loop ends
\* and its listener is dropped, which releases (bind address, local port); a
\* start_local_forwarding with the same parameters made after that binds a
\* fresh listener, spawns a new accept loop and registers the id again.
C26_ReleasedThenRestarted ==
    /\ \A l \in Loops : task[l].stopped ~> ~TaskAlive(l)
    /\ [][\A c \in Callers :
            /\ (call[c].pc = "bind" /\ call'[c].pc = "diagnose")
                  => call'[c].busy # {}
            /\ (call[c].pc = "bind" /\ call'[c].pc = "insert")
                  => LET l == call'[c].held
                     IN /\ task[l].st = "unspawned"
                        /\ task'[l].st \in {"idle", "running"}
                        /\ <<task'[l].bind, task'[l].lport>>
                              = <<call[c].bind, call[c].lport>>
            /\ (call[c].pc = "insert" /\ ret'[c].op = "start_local")
                  => /\ ret'[c].ok /\ ret'[c].id = call[c].id
                     /\ call[c].id \in DOMAIN local_listeners'
                     /\ local_listeners'[call[c].id] = call[c].held
                     /\ task'[call[c].held].st \in {"idle", "running"}
                     /\ ~task'[call[c].held].stopped]_vars

\* the first loop was stopped and has ended, and the same tunnel is
\* registered again with a second loop that listens
C26_Witness ==
    /\ \E l \in Loops : task[l].stopped /\ task[l].st = "done"
    /\ LocalId(8080, 5432) \in DOMAIN local_listeners
    /\ LET m == local_listeners[LocalId(8080, 5432)]
       IN TaskAlive(m) /\ ~task[m].stopped
          /\ <<task[m].bind, task[m].lport>> = <<"127.0.0.1", 8080>>

\* ---- stop_tunnel with an id that is no tunnel id

\* the string is a decimal value in 0..65535 (a sign "+" does not change the
\* value)
IsDecimalU16(str) ==
    LET digits == IF str # <<>> /\ str[1] = "+" THEN Tail(str) ELSE str
    IN /\ digits # <<>>
       /\ \A i \in 1..Len(digits) :
              digits[i] \in {"0", "1", "2", "3", "4", "5", "6", "7", "8", "9"}
       /\ DecVal(digits) <= 65535

\* the id has neither prefix, or it is a remote id that has not exactly three
\* fields or whose port field is no decimal value in 0..65535
NotATunnelId(id) ==
    \/ ~StartsWith(id, StrLocal) /\ ~StartsWith(id, StrRemote)
    \/ /\ StartsWith(id, StrRemote)
       /\ \/ Len(Split(id, ":")) # 3
          \/ ~IsDecimalU16(Split(id, ":")[2])

\* C27: stop_tunnel with an id that does not parse as a tunnel id returns
\* success, changes neither registry, signals no accept loop and sends no
\* cancel-tcpip-forward, with or without a session handle.
C27_MalformedIdNoEffect ==
    [][\A c \in Callers :
          /\ (Idle(c) /\ call'[c].op \in {"stop_local", "stop_remote"})
                => ~NotATunnelId(call'[c].id)
          /\ (Idle(c) /\ ret'[c].op = "stop" /\ NotATunnelId(ret'[c].id))
                => /\ ret'[c].ok
                   /\ UNCHANGED <<local_listeners, remote_forwards, task, conn,
                                  server_forwards, session_lock>>
                   /\ sent'.kind = "none"]_vars

\* stop_tunnel was called with "remote:9000", which has two fields only,
\* while port 9000 is registered and forwarded and a local tunnel runs
C27_Witness ==
    /\ \E c \in Callers :
          ret[c].op = "stop" /\ ret[c].id = StrRemote \o Dec(9000)
    /\ 9000 \in DOMAIN remote_forwards
    /\ 9000 \in ServerPorts
    /\ local_listeners # EmptyMap

\* ---- bound port of 32 bits

\* C28: the handler routes a forwarded-tcpip open to a registered target only
\* when the 32-bit bound port the server delivers is numerically equal to a
\* registered remote port; an open whose bound port is above 65535 matches
\* no entry.
C28_BoundPortMatchedIn32Bits ==
    /\ handled.dialed # None => handled.port \in DOMAIN remote_forwards
    /\ handled.port > 65535 => handled.dialed = None

\* ---- one manager shared by two sessions

\* C29: when two sessions share one manager, a start_remote_forwarding that
\* succeeds with the handle of one session has issued tcpip_forward for the
\* port on that session, even if the port was registered through the other
\* session before; and an open for a port that was requested is routed to
\* its target only on a session that requested the port.
C29_RequestedOnOwnSession ==
    /\ \A c \in Callers :
          (ret[c].op = "start_remote" /\ ret[c].ok)
            => <<ret[c].handle, RemotePortOf(ret[c].id)[1]>> \in issued
    /\ (handled.dialed # None /\ \E s \in Sessions : <<s, handled.port>> \in issued)
            => <<handled.on, handled.port>> \in issued

====
